---- MODULE Spec2Model ----
(***************************************************************************)
(* A model of freeipa_mcp_server.py: the result normalizer                 *)
(* (safe_json_serialize), the session manager (connect_freeipa,            *)
(* ensure_connection and the two module globals) and the tool handlers.    *)
(* Spec runs the tools one whole call at a time, SpecNorm the normalizer   *)
(* on its own, SpecConc the calls of two sessions in flight together.      *)
(***************************************************************************)
EXTENDS Integers, Sequences, FiniteSets, TLC

VARIABLES
    freeipa_client,     \* the module global of line 79: None or a ClientMeta
    freeipa_connected,  \* the module global of line 80
    started,            \* whether startup_event has run
    last,               \* what the last call did: its backend calls and outcome
    history,            \* how the last connect or ping ended, and what came after
    tasks,              \* the call in flight of each /sse session
    n_heap,               \* normalizer: the object graph of the argument
    n_obj,                \* normalizer: the identity of the argument in heap
    n_max_depth,          \* normalizer: the max_depth argument
    n_current_depth,      \* normalizer: the current_depth argument
    n_serialized        \* normalizer: what safe_json_serialize returned

session_vars == <<freeipa_client, freeipa_connected, started, last, history, tasks>>
norm_vars == <<n_heap, n_obj, n_max_depth, n_current_depth, n_serialized>>
vars == <<freeipa_client, freeipa_connected, started, last, history, tasks,
          n_heap, n_obj, n_max_depth, n_current_depth, n_serialized>>

(***************************************************************************)
(* Bounds of the model.                                                    *)
(***************************************************************************)
\* number of objects in a payload's object graph
NumNodes == 2
\* largest max_depth argument tried by the normalizer specification
MaxDepthBound == 2

\* safe_json_serialize's default max_depth
DEFAULT_MAX_DEPTH == 10

(***************************************************************************)
(* Python values.  A payload is an object graph: heap[i] is the object     *)
(* with identity i, containers hold identities, so a structure can refer   *)
(* to itself.  Every string that the program only passes along is a TLA+   *)
(* string; a primitive carries its Python type and the text of its value.  *)
(***************************************************************************)
PyPrim(ptype, val) == [kind |-> "prim", ptype |-> ptype, val |-> val]
PyStr(s) == PyPrim("str", s)
PyListOf(items) == [kind |-> "list", items |-> items]
PyTupleOf(items) == [kind |-> "tuple", items |-> items]
PyDictOf(entries) == [kind |-> "dict", entries |-> entries]
\* any other object; str_ok says whether str(obj) returns or raises
PyObject(str_ok) == [kind |-> "obj", str_ok |-> str_ok]

\* dict keys: a str key, an int key with the same text, a key whose str() raises
StrKey(s) == [ktype |-> "str", text |-> s]
IntKey(s) == [ktype |-> "int", text |-> s]
BadKey == [ktype |-> "bad", text |-> "?"]

\* str(key): does it return, and what
KeyStrOk(key) == key.ktype # "bad"
KeyStr(key) == key.text

(***************************************************************************)
(* Results of safe_json_serialize: a tree of primitives, lists and         *)
(* str-keyed dicts, or an exception that left the function.                *)
(***************************************************************************)
OutPrim(ptype, val) == [t |-> "prim", ptype |-> ptype, val |-> val]
OutStr(s) == OutPrim("str", s)
OutList(items) == [t |-> "list", items |-> items]
OutDict(map) == [t |-> "dict", map |-> map]
Raised(exc) == [t |-> "raise", exc |-> exc]
IsRaised(r) == r.t = "raise"

MaxDepthExceeded == OutStr("[Max Depth Exceeded]")
UnserializableObject == OutStr("[Unserializable Object]")
\* f"[Serialization Error: {str(e)}]", e being the exception of a str(key)
SerializationError == OutStr("[Serialization Error: str(key) failed]")
ObjectText == OutStr("<object>")
KeyError == Raised("str(key) failed")
EmptyMap == [k \in {} |-> MaxDepthExceeded]

RECURSIVE safe_json_serialize(_, _, _, _)
RECURSIVE SerializeItems(_, _, _, _)
RECURSIVE SerializeEntries(_, _, _, _, _)

\* the list comprehension of line 92: the items in order, the first
\* exception ends it
SerializeItems(heap, items, max_depth, current_depth) ==
    IF items = <<>> THEN OutList(<<>>)
    ELSE LET first == safe_json_serialize(heap, Head(items), max_depth, current_depth + 1)
         IN  IF IsRaised(first) THEN first
             ELSE LET rest == SerializeItems(heap, Tail(items), max_depth, current_depth)
                  IN  IF IsRaised(rest) THEN rest
                      ELSE OutList(<<first>> \o rest.items)

\* the loop of lines 95-99 over obj.items(): the value is serialized before
\* str(key) is evaluated; the handler of line 98 evaluates str(key) again
SerializeEntries(heap, entries, result, max_depth, current_depth) ==
    IF entries = <<>> THEN OutDict(result)
    ELSE LET key == Head(entries).key
             value == safe_json_serialize(heap, Head(entries).val, max_depth, current_depth + 1)
         IN  IF ~KeyStrOk(key) THEN KeyError
             ELSE SerializeEntries(heap, Tail(entries),
                      (KeyStr(key) :> (IF IsRaised(value) THEN SerializationError ELSE value)) @@ result,
                      max_depth, current_depth)

\* safe_json_serialize with the depth test of line 87 off by one (>= for >)
safe_json_serialize_off_by_one(heap, obj, max_depth, current_depth) ==
    LET node == heap[obj]
    IN  IF current_depth >= max_depth THEN MaxDepthExceeded
        ELSE IF node.kind = "prim" THEN OutPrim(node.ptype, node.val)
        ELSE IF node.kind \in {"list", "tuple"}
            THEN SerializeItems(heap, node.items, max_depth, current_depth)
        ELSE IF node.kind = "dict"
            THEN SerializeEntries(heap, node.entries, EmptyMap, max_depth, current_depth)
        ELSE IF node.str_ok THEN ObjectText
        ELSE UnserializableObject

safe_json_serialize(heap, obj, max_depth, current_depth) ==
    LET node == heap[obj]
    IN  IF current_depth > max_depth THEN MaxDepthExceeded
        ELSE IF node.kind = "prim" THEN OutPrim(node.ptype, node.val)
        ELSE IF node.kind \in {"list", "tuple"}
            THEN SerializeItems(heap, node.items, max_depth, current_depth)
        ELSE IF node.kind = "dict"
            THEN SerializeEntries(heap, node.entries, EmptyMap, max_depth, current_depth)
        ELSE IF node.str_ok THEN ObjectText
        ELSE UnserializableObject

(***************************************************************************)
(* Process configuration (lines 69-72) and the values callers pass.        *)
(***************************************************************************)
FREEIPA_SERVER == "ipa.config.test"
FREEIPA_USERNAME == "admin"
FREEIPA_PASSWORD == "config-password"
\* os.getenv("FREEIPA_VERIFY_SSL", "false").lower() == "true"
FREEIPA_VERIFY_SSL == FALSE

\* the arguments of the freeipa_connect tool: the configured ones, and others
ConnectArgs ==
    {[server |-> FREEIPA_SERVER, username |-> FREEIPA_USERNAME,
      password |-> FREEIPA_PASSWORD, verify_ssl |-> FREEIPA_VERIFY_SSL],
     [server |-> "ipa.other.test", username |-> "bob",
      password |-> "bob-password", verify_ssl |-> TRUE]}

(***************************************************************************)
(* The backend handle.  None is the empty slot; a ClientMeta carries the   *)
(* endpoint it was built for and whether its login() has returned.  A new  *)
(* object gets an identity that the object still in the slot does not use. *)
(***************************************************************************)
None == [id |-> 0, server |-> "", verify_ssl |-> FALSE, authed |-> FALSE]
ClientMeta(id, server, verify_ssl) ==
    [id |-> id, server |-> server, verify_ssl |-> verify_ssl, authed |-> FALSE]
LoggedIn(handle) == [handle EXCEPT !.authed = TRUE]
FreshId(client) == IF client.id = 1 THEN 2 ELSE 1

\* one call on the backend client library: the handle it was made on,
\* whether it returned (ok) or raised, and its arguments
Call(op, handle, ok, args) == [op |-> op, handle |-> handle, ok |-> ok, args |-> args]
NoArgs == [none |-> TRUE]

(***************************************************************************)
(* Action outcomes: the dict a tool returns (its keys and values), or      *)
(* Python's None when the function falls off its end.                      *)
(***************************************************************************)
Absent == [t |-> "absent"]
ResultOutcome(value) ==
    [ret |-> "dict", keys |-> {"result"}, result |-> value, error |-> "",
     username |-> "", new_password |-> <<>>]
ErrorOutcome(text) ==
    [ret |-> "dict", keys |-> {"error"}, result |-> Absent, error |-> text,
     username |-> "", new_password |-> <<>>]
ResetOutcome(text, username, new_password) ==
    [ret |-> "dict", keys |-> {"result", "username", "new_password"},
     result |-> OutStr(text), error |-> "",
     username |-> username, new_password |-> new_password]
NoneOutcome ==
    [ret |-> "None", keys |-> {}, result |-> Absent, error |-> "",
     username |-> "", new_password |-> <<>>]

\* a handler whose except clause lets the exception through to its caller
Except_propagates(text) ==
    [ret |-> "raise", keys |-> {}, result |-> Absent, error |-> text,
     username |-> "", new_password |-> <<>>]

\* except Exception as e: return {"error": f"<text>: {str(e)}"}, the clause
\* that closes the try block of every tool
Except(text) == ErrorOutcome(text)

\* "FreeIPA sunucusuna bagli degil": the not-connected error of every tool
NOT_CONNECTED == "FreeIPA sunucusuna bagli degil"
NotConnected == ErrorOutcome(NOT_CONNECTED)

(***************************************************************************)
(* Session manager.  Each operator takes the globals and the backend's     *)
(* answers and gives the globals afterwards, the value returned and the    *)
(* backend calls issued, in order.                                         *)
(***************************************************************************)
Step(client, connected, ret, calls) ==
    [client |-> client, connected |-> connected, ret |-> ret, calls |-> calls]

\* connect_freeipa with the assignment of line 120 left out
connect_freeipa_keeps_flag(client, connected, construct_ok, login_ok) ==
    LET handle == ClientMeta(FreshId(client), FREEIPA_SERVER, FREEIPA_VERIFY_SSL)
        ctor == [server |-> FREEIPA_SERVER, verify_ssl |-> FREEIPA_VERIFY_SSL]
        cred == [username |-> FREEIPA_USERNAME, password |-> FREEIPA_PASSWORD]
    IN  IF ~construct_ok
        THEN Step(client, connected, FALSE, <<Call("ClientMeta", None, FALSE, ctor)>>)
        ELSE IF ~login_ok
        THEN Step(handle, connected, FALSE,
                  <<Call("ClientMeta", handle, TRUE, ctor), Call("login", handle, FALSE, cred)>>)
        ELSE Step(LoggedIn(handle), TRUE, TRUE,
                  <<Call("ClientMeta", handle, TRUE, ctor), Call("login", handle, TRUE, cred)>>)

connect_freeipa(client, connected, construct_ok, login_ok) ==
    LET handle == ClientMeta(FreshId(client), FREEIPA_SERVER, FREEIPA_VERIFY_SSL)
        ctor == [server |-> FREEIPA_SERVER, verify_ssl |-> FREEIPA_VERIFY_SSL]
        cred == [username |-> FREEIPA_USERNAME, password |-> FREEIPA_PASSWORD]
    IN  IF ~construct_ok
        THEN Step(client, FALSE, FALSE, <<Call("ClientMeta", None, FALSE, ctor)>>)
        ELSE IF ~login_ok
        THEN Step(handle, FALSE, FALSE,
                  <<Call("ClientMeta", handle, TRUE, ctor), Call("login", handle, FALSE, cred)>>)
        ELSE Step(LoggedIn(handle), TRUE, TRUE,
                  <<Call("ClientMeta", handle, TRUE, ctor), Call("login", handle, TRUE, cred)>>)

\* ensure_connection that reconnects again when the reconnect fails
ensure_connection_retries(client, connected, ping_ok, construct_ok, login_ok) ==
    LET first == connect_freeipa(client, connected, construct_ok, login_ok)
        again == connect_freeipa(first.client, first.connected, construct_ok, login_ok)
    IN  IF ~connected \/ client = None THEN first
        ELSE IF ping_ok THEN Step(client, connected, TRUE, <<Call("ping", client, TRUE, NoArgs)>>)
        ELSE IF first.ret
        THEN [first EXCEPT !.calls = <<Call("ping", client, FALSE, NoArgs)>> \o first.calls]
        ELSE [again EXCEPT !.calls = <<Call("ping", client, FALSE, NoArgs)>> \o first.calls \o again.calls]

\* ensure_connection that returns False when the ping fails
ensure_connection_gives_up(client, connected, ping_ok, construct_ok, login_ok) ==
    IF ~connected \/ client = None
    THEN connect_freeipa(client, connected, construct_ok, login_ok)
    ELSE Step(client, ping_ok, ping_ok, <<Call("ping", client, ping_ok, NoArgs)>>)

ensure_connection(client, connected, ping_ok, construct_ok, login_ok) ==
    LET reconnect == connect_freeipa(client, connected, construct_ok, login_ok)
    IN  IF ~connected \/ client = None THEN reconnect
        ELSE IF ping_ok
        THEN Step(client, connected, TRUE, <<Call("ping", client, TRUE, NoArgs)>>)
        ELSE [reconnect EXCEPT !.calls = <<Call("ping", client, FALSE, NoArgs)>> \o reconnect.calls]

(***************************************************************************)
(* What a backend call answers: an exception, a mapping without a          *)
(* "result" field, or a mapping whose "result" is one of these payloads.   *)
(***************************************************************************)
PlainPayload == <<PyDictOf(<<[key |-> StrKey("1"), val |-> 2]>>), PyStr("x")>>
BadKeyPayload == <<PyDictOf(<<[key |-> BadKey, val |-> 2]>>), PyStr("x")>>
CyclicPayload == <<PyListOf(<<1>>)>>
EmptyDict == <<PyDictOf(<<>>)>>
EmptyList == <<PyListOf(<<>>)>>

ReplyRaise == [kind |-> "raise", payload |-> EmptyDict]
ReplyNoResult == [kind |-> "noresult", payload |-> EmptyDict]
ReplyOf(payload) == [kind |-> "result", payload |-> payload]
Replies == {ReplyRaise, ReplyNoResult, ReplyOf(PlainPayload),
            ReplyOf(BadKeyPayload), ReplyOf(CyclicPayload)}

\* a handler's result: the globals afterwards, what ensure_connection
\* returned ("n/a" when the tool does not call it), the calls, the outcome
Handled(client, connected, ensured, calls, outcome) ==
    [client |-> client, connected |-> connected, ensured |-> ensured,
     calls |-> calls, outcome |-> outcome]

(***************************************************************************)
(* Connection tools.                                                       *)
(***************************************************************************)
\* freeipa_connect with the assignment of line 161 left out
freeipa_connect_keeps_flag(client, connected, args, construct_ok, login_ok) ==
    LET handle == ClientMeta(FreshId(client), args.server, args.verify_ssl)
        ctor == [server |-> args.server, verify_ssl |-> args.verify_ssl]
        cred == [username |-> args.username, password |-> args.password]
        failed == ErrorOutcome("FreeIPA baglantisi basarisiz")
    IN  IF ~construct_ok
        THEN Handled(client, connected, "n/a",
                     <<Call("ClientMeta", None, FALSE, ctor)>>, failed)
        ELSE IF ~login_ok
        THEN Handled(handle, connected, "n/a",
                     <<Call("ClientMeta", handle, TRUE, ctor), Call("login", handle, FALSE, cred)>>,
                     failed)
        ELSE Handled(LoggedIn(handle), TRUE, "n/a",
                     <<Call("ClientMeta", handle, TRUE, ctor), Call("login", handle, TRUE, cred)>>,
                     ResultOutcome(OutStr("FreeIPA sunucusuna basariyla baglandi")))

freeipa_connect(client, connected, args, construct_ok, login_ok) ==
    LET handle == ClientMeta(FreshId(client), args.server, args.verify_ssl)
        ctor == [server |-> args.server, verify_ssl |-> args.verify_ssl]
        cred == [username |-> args.username, password |-> args.password]
        failed == Except("FreeIPA baglantisi basarisiz")
    IN  IF ~construct_ok
        THEN Handled(client, FALSE, "n/a",
                     <<Call("ClientMeta", None, FALSE, ctor)>>, failed)
        ELSE IF ~login_ok
        THEN Handled(handle, FALSE, "n/a",
                     <<Call("ClientMeta", handle, TRUE, ctor), Call("login", handle, FALSE, cred)>>,
                     failed)
        ELSE Handled(LoggedIn(handle), TRUE, "n/a",
                     <<Call("ClientMeta", handle, TRUE, ctor), Call("login", handle, TRUE, cred)>>,
                     ResultOutcome(OutStr("FreeIPA sunucusuna basariyla baglandi")))

\* freeipa_disconnect with the assignment of line 178 left out
freeipa_disconnect_keeps_flag(client, connected, logout_ok) ==
    IF client # None /\ ~logout_ok
    THEN Handled(client, connected, "n/a", <<Call("logout", client, FALSE, NoArgs)>>,
                 ErrorOutcome("FreeIPA baglantisi kapatilirken hata"))
    ELSE Handled(None, connected, "n/a",
                 IF client # None THEN <<Call("logout", client, TRUE, NoArgs)>> ELSE <<>>,
                 ResultOutcome(OutStr("FreeIPA baglantisi kapatildi")))

freeipa_disconnect(client, connected, logout_ok) ==
    IF client # None /\ ~logout_ok
    THEN Handled(client, connected, "n/a", <<Call("logout", client, FALSE, NoArgs)>>,
                 Except("FreeIPA baglantisi kapatilirken hata"))
    ELSE Handled(None, FALSE, "n/a",
                 IF client # None THEN <<Call("logout", client, TRUE, NoArgs)>> ELSE <<>>,
                 ResultOutcome(OutStr("FreeIPA baglantisi kapatildi")))

freeipa_status(client, connected, reply) ==
    LET value == safe_json_serialize(reply.payload, 1, DEFAULT_MAX_DEPTH, 0)
        failed == Except("FreeIPA baglantisi kontrol edilirken hata")
    IN  IF ~connected THEN Handled(client, connected, "n/a", <<>>, NotConnected)
        ELSE IF client = None THEN Handled(client, connected, "n/a", <<>>, NoneOutcome)
        ELSE IF reply.kind = "raise"
        THEN Handled(client, FALSE, "n/a", <<Call("ping", client, FALSE, NoArgs)>>, failed)
        ELSE IF IsRaised(value)
        THEN Handled(client, FALSE, "n/a", <<Call("ping", client, TRUE, NoArgs)>>, failed)
        ELSE Handled(client, connected, "n/a", <<Call("ping", client, TRUE, NoArgs)>>,
                     ResultOutcome(value))

(***************************************************************************)
(* Directory tools.  Every one of them is the same three steps: the        *)
(* ensure_connection gate, one backend call on the client in the slot,     *)
(* and res.get("result", default) through safe_json_serialize; an          *)
(* exception of the last two becomes the tool's error.  b holds the        *)
(* backend's answers to the gate's ping, ClientMeta() and login().         *)
(***************************************************************************)
Gate(client, connected, b) ==
    ensure_connection(client, connected, b.ping, b.construct, b.login)

\* a tool that goes on to its backend call when the gate has failed
DirectoryTool_ignores_gate(gate, op, args, reply, default, error_text) ==
    LET payload == IF reply.kind = "result" THEN reply.payload ELSE default
        value == safe_json_serialize(payload, 1, DEFAULT_MAX_DEPTH, 0)
        call == Call(op, gate.client, reply.kind # "raise", args)
    IN  IF reply.kind = "raise" \/ IsRaised(value)
        THEN Handled(gate.client, gate.connected, IF gate.ret THEN "True" ELSE "False",
                     gate.calls \o <<call>>, ErrorOutcome(error_text))
        ELSE Handled(gate.client, gate.connected, IF gate.ret THEN "True" ELSE "False",
                     gate.calls \o <<call>>, ResultOutcome(value))

DirectoryTool(gate, op, args, reply, default, error_text) ==
    LET payload == IF reply.kind = "result" THEN reply.payload ELSE default
        value == safe_json_serialize(payload, 1, DEFAULT_MAX_DEPTH, 0)
        call == Call(op, gate.client, reply.kind # "raise", args)
    IN  IF ~gate.ret
        THEN Handled(gate.client, gate.connected, "False", gate.calls, NotConnected)
        ELSE IF reply.kind = "raise" \/ IsRaised(value)
        THEN Handled(gate.client, gate.connected, "True", gate.calls \o <<call>>,
                     Except(error_text))
        ELSE Handled(gate.client, gate.connected, "True", gate.calls \o <<call>>,
                     ResultOutcome(value))

change_password(client, connected, b, username, new_password, old_password, reply) ==
    DirectoryTool(Gate(client, connected, b), "change_password",
                  [username |-> username, new_password |-> new_password,
                   old_password |-> old_password],
                  reply, EmptyDict, "Kullanici detaylari alinirken hata")

user_list(client, connected, b, sizelimit, reply) ==
    DirectoryTool(Gate(client, connected, b), "user_find", [sizelimit |-> sizelimit],
                  reply, EmptyList, "Kullanici listesi alinirken hata")

user_show(client, connected, b, uid, reply) ==
    DirectoryTool(Gate(client, connected, b), "user_show", [a_uid |-> uid],
                  reply, EmptyDict, "Kullanici detaylari alinirken hata")

user_add(client, connected, b, uid, givenname, sn, mail, userpassword, reply) ==
    DirectoryTool(Gate(client, connected, b), "user_add",
                  [a_uid |-> uid, a_givenname |-> givenname, a_sn |-> sn,
                   o_mail |-> mail, o_userpassword |-> userpassword],
                  reply, EmptyDict, "Kullanici eklenirken hata")

\* a keyword argument whose value is Python's None
PyNone == "<None>"
IsGiven(kv) == kv.v # PyNone

user_modify(client, connected, b, uid, kwargs, reply) ==
    DirectoryTool(Gate(client, connected, b), "user_mod",
                  [a_uid |-> uid, params |-> SelectSeq(kwargs, IsGiven)],
                  reply, EmptyDict, "Kullanici guncellenirken hata")

\* group_list without its first branch: the name filter wins over the other
GroupFindArgs_name_wins(sizelimit, cn, description) ==
    IF cn # ""
    THEN [passed |-> {"a_cn", "sizelimit"},
          a_cn |-> cn, o_description |-> "", sizelimit |-> sizelimit]
    ELSE IF description # ""
    THEN [passed |-> {"o_description", "sizelimit"},
          a_cn |-> "", o_description |-> description, sizelimit |-> sizelimit]
    ELSE [passed |-> {"sizelimit"},
          a_cn |-> "", o_description |-> "", sizelimit |-> sizelimit]

\* the four branches of lines 397-404: "" is false, any other str true
GroupFindArgs(sizelimit, cn, description) ==
    IF cn # "" /\ description # ""
    THEN [passed |-> {"a_cn", "o_description", "sizelimit"},
          a_cn |-> cn, o_description |-> description, sizelimit |-> sizelimit]
    ELSE IF cn # ""
    THEN [passed |-> {"a_cn", "sizelimit"},
          a_cn |-> cn, o_description |-> "", sizelimit |-> sizelimit]
    ELSE IF description # ""
    THEN [passed |-> {"o_description", "sizelimit"},
          a_cn |-> "", o_description |-> description, sizelimit |-> sizelimit]
    ELSE [passed |-> {"sizelimit"},
          a_cn |-> "", o_description |-> "", sizelimit |-> sizelimit]

group_list(client, connected, b, sizelimit, cn, description, reply) ==
    DirectoryTool(Gate(client, connected, b), "group_find", GroupFindArgs(sizelimit, cn, description),
                  reply, EmptyList, "Grup listesi alinirken hata")

group_show(client, connected, b, cn, reply) ==
    DirectoryTool(Gate(client, connected, b), "group_show", [a_cn |-> cn],
                  reply, EmptyDict, "Grup detaylari alinirken hata")

group_add(client, connected, b, cn, description, reply) ==
    DirectoryTool(Gate(client, connected, b), "group_add", [a_cn |-> cn, o_description |-> description],
                  reply, EmptyDict, "Grup eklenirken hata")

group_add_member(client, connected, b, cn, user, reply) ==
    DirectoryTool(Gate(client, connected, b), "group_add_member", [a_cn |-> cn, o_user |-> user],
                  reply, EmptyDict, "Gruba uye eklenirken hata")

group_remove_member(client, connected, b, cn, user, reply) ==
    DirectoryTool(Gate(client, connected, b), "group_remove_member", [a_cn |-> cn, o_user |-> user],
                  reply, EmptyDict, "Gruptan uye cikarilirken hata")

(***************************************************************************)
(* Credential reset.  Phone numbers and passwords are strings the code     *)
(* computes with, so they are sequences of characters.                     *)
(***************************************************************************)
RECURSIVE RemoveAll(_, _)
\* s.replace(old, ""): every occurrence, left to right, not overlapping
RemoveAll(s, old) ==
    IF Len(s) < Len(old) THEN s
    ELSE IF SubSeq(s, 1, Len(old)) = old
    THEN RemoveAll(SubSeq(s, Len(old) + 1, Len(s)), old)
    ELSE <<Head(s)>> \o RemoveAll(Tail(s), old)

RECURSIVE RemoveFirst(_, _)
\* s.replace(old, "", 1): the first occurrence only
RemoveFirst(s, old) ==
    IF Len(s) < Len(old) THEN s
    ELSE IF SubSeq(s, 1, Len(old)) = old
    THEN SubSeq(s, Len(old) + 1, Len(s))
    ELSE <<Head(s)>> \o RemoveFirst(Tail(s), old)

normalize_phone(phone) ==
    RemoveAll(RemoveAll(RemoveFirst(RemoveAll(phone, <<"+", "9", "0">>), <<"0">>),
                        <<" ">>), <<"-">>)

\* string.ascii_letters + string.digits
Alphabet ==
    <<"a", "b", "c", "d", "e", "f", "g", "h", "i", "j", "k", "l", "m",
      "n", "o", "p", "q", "r", "s", "t", "u", "v", "w", "x", "y", "z",
      "A", "B", "C", "D", "E", "F", "G", "H", "I", "J", "K", "L", "M",
      "N", "O", "P", "Q", "R", "S", "T", "U", "V", "W", "X", "Y", "Z",
      "0", "1", "2", "3", "4", "5", "6", "7", "8", "9">>

\* generate_password's default length
PASSWORD_LENGTH == 12

\* generate_password with range(length - 1)
generate_password_short(length, picks) == [i \in 1..(length - 1) |-> Alphabet[picks[i]]]

\* picks[i] is the index secrets.choice draws for the i-th character
generate_password(length, picks) == [i \in 1..length |-> Alphabet[picks[i]]]

MapPhones(phones) == [i \in 1..Len(phones) |-> normalize_phone(phones[i])]

\* a membership test that only asks whether any number is registered
InSeq_unchecked(x, seq) == seq # <<>>

InSeq(x, seq) == \E i \in 1..Len(seq) : seq[i] = x

\* the keyword arguments of lines 261-265 with old and new exchanged
ResetChangeArgs_swapped(username, new_password, temp_password) ==
    [username |-> username, new_password |-> temp_password, old_password |-> new_password]

\* the keyword arguments of the change_password call of lines 261-265
ResetChangeArgs(username, new_password, temp_password) ==
    [username |-> username, new_password |-> new_password, old_password |-> temp_password]

\* the last step with a failed change_password answered by the temporary
\* credential instead of the error
ResetFinish_falls_back(username, new_password, temp_password, change_ok) ==
    IF new_password = <<>> \/ ~change_ok
    THEN ResetOutcome("Sifre basariyla sifirlandi. Yeni sifre kullaniciya iletildi.",
                      username, temp_password)
    ELSE ResetOutcome("Sifre basariyla sifirlandi ve yeni sifre ayarlandi.",
                      username, new_password)

\* lines 260-280 once user_mod has returned: what the tool returns
ResetFinish(username, new_password, temp_password, change_ok) ==
    IF new_password = <<>>
    THEN ResetOutcome("Sifre basariyla sifirlandi. Yeni sifre kullaniciya iletildi.",
                      username, temp_password)
    ELSE IF ~change_ok THEN Except("Kullanici sifresi resetlenirken hata")
    ELSE ResetOutcome("Sifre basariyla sifirlandi ve yeni sifre ayarlandi.",
                      username, new_password)

forgot_reset_password(client, connected, b, username, phone, new_password, lookup, picks, mod_ok, change_ok) ==
    LET gate == Gate(client, connected, b)
        handle == gate.client
        ipa_phones == lookup.phones
        user_phones == MapPhones(ipa_phones)
        input_phone == normalize_phone(phone)
        temp_password == generate_password(PASSWORD_LENGTH, picks)
        failed == Except("Kullanici sifresi resetlenirken hata")
        show == Call("user_show", handle, lookup.kind # "raise", [a_uid |-> username])
        mod == Call("user_mod", handle, mod_ok,
                    [a_uid |-> username, o_userpassword |-> temp_password])
        change == Call("change_password", handle, change_ok,
                       ResetChangeArgs(username, new_password, temp_password))
        finish == ResetFinish(username, new_password, temp_password, change_ok)
        done(calls, outcome) ==
            Handled(gate.client, gate.connected, "True", gate.calls \o calls, outcome)
    IN  IF ~gate.ret
        THEN Handled(gate.client, gate.connected, "False", gate.calls, NotConnected)
        ELSE IF lookup.kind = "raise" THEN done(<<show>>, failed)
        ELSE IF ipa_phones = <<>> \/ ~InSeq(input_phone, user_phones)
        THEN done(<<show>>,
                  ErrorOutcome("Telefon numarasi dogrulanamadi veya sistemde kayitli degil."))
        ELSE IF ~mod_ok THEN done(<<show, mod>>, failed)
        ELSE IF new_password = <<>> THEN done(<<show, mod>>, finish)
        ELSE done(<<show, mod, change>>, finish)

(***************************************************************************)
(* The server: startup_event once, then the tools, one call at a time (no  *)
(* tool awaits, so a call runs to its end before the next one starts).     *)
(* Every action draws the tool's arguments and the backend's answers; the  *)
(* record of a credential reset keeps, beside the arguments, the numbers   *)
(* the lookup answered (ipa_phones).                                       *)
(***************************************************************************)
\* the answers to the gate's ping, ClientMeta() and login(); login() is not
\* reached when ClientMeta() raises
Backend ==
    {b \in [ping : BOOLEAN, construct : BOOLEAN, login : BOOLEAN] :
        b.login => b.construct}
\* the answers to user_mod and change_password of the credential reset
ResetAnswers == {a \in [mod : BOOLEAN, change : BOOLEAN] : a.change => a.mod}

Uids == {"alice"}
Groups == {"eng"}
SizeLimits == {100, 5}
NameFilters == {"", "eng*"}
DescriptionFilters == {"", "ops"}
OldPassword == <<"o", "l", "d">>
NewPasswords == {<<>>, <<"n", "e", "w">>}
KwargSamples ==
    {<<>>,
     <<[k |-> "o_mail", v |-> PyNone], [k |-> "o_title", v |-> "dr"]>>}

PhoneIntl == <<"+", "9", "0", "5", "5", "1">>
PhoneTrunk == <<"0", "5", "5", "1">>
PhoneSpaced == <<"0", "5", "5", " ", "1">>
PhoneOther == <<"0", "5", "5", "-", "2">>
InputPhones == {PhoneIntl, PhoneSpaced, PhoneOther}
Lookups ==
    {[kind |-> "raise", phones |-> <<>>],
     [kind |-> "ok", phones |-> <<>>],
     [kind |-> "ok", phones |-> <<PhoneTrunk>>],
     [kind |-> "ok", phones |-> <<PhoneOther, PhoneIntl>>]}
RandomPicks ==
    {[i \in 1..PASSWORD_LENGTH |-> 1],
     [i \in 1..PASSWORD_LENGTH |-> ((i * 7) % Len(Alphabet)) + 1]}

Pending == [t |-> "pending"]
NoHeap == <<PyPrim("NoneType", "None")>>

Loaded ==
    [op |-> "load", args |-> NoArgs, pre_client |-> None, pre_connected |-> FALSE,
     returned |-> "n/a", calls |-> <<>>, outcome |-> NoneOutcome]

\* no connect and no ping yet
NoHistory == [probe |-> "none", cleared |-> FALSE]

\* The record of the last connect or ping after a call: probe is "ok" or
\* "failed" as the last ClientMeta(), login or ping of the call ended (a
\* ClientMeta() that returns is followed by its login), and is kept when the
\* call made none; cleared tells that, since then, the flag was set to
\* False by a freeipa_disconnect that returned its result (line 178) or by
\* the except clause of a freeipa_status whose ping had returned (line 201).
HistoryAfter(h, op, calls, outcome) ==
    LET gate == SelectSeq(calls, LAMBDA call : call.op \in {"ping", "ClientMeta", "login"})
        probed == gate # <<>>
    IN  [probe |-> IF ~probed THEN h.probe
                   ELSE IF gate[Len(gate)].ok THEN "ok" ELSE "failed",
         cleared |-> IF op = "freeipa_disconnect" /\ outcome.keys = {"result"} THEN TRUE
                     ELSE IF op = "freeipa_status" /\ probed /\ outcome.keys = {"error"}
                     THEN gate[Len(gate)].ok
                     ELSE IF probed THEN FALSE ELSE h.cleared]

\* no call in flight
IdleTask ==
    [op |-> "none", pc |-> "idle", pre_client |-> None, pre_connected |-> FALSE,
     returned |-> "n/a", calls |-> <<>>, outcome |-> NoneOutcome, runs |-> 0, met |-> 0]
Tasks == {"a", "b"}

\* the globals and the record of the call after a tool has run
Ran(op, args, h) ==
    /\ started
    /\ freeipa_client' = h.client
    /\ freeipa_connected' = h.connected
    /\ last' = [op |-> op, args |-> args, pre_client |-> freeipa_client,
                pre_connected |-> freeipa_connected, returned |-> h.ensured,
                calls |-> h.calls, outcome |-> h.outcome]
    /\ history' = HistoryAfter(history, op, h.calls, h.outcome)
    /\ UNCHANGED <<started, tasks, norm_vars>>

\* the same after a plain call of a session-manager function
Returned(op, r) ==
    /\ freeipa_client' = r.client
    /\ freeipa_connected' = r.connected
    /\ last' = [op |-> op, args |-> NoArgs, pre_client |-> freeipa_client,
                pre_connected |-> freeipa_connected,
                returned |-> IF r.ret THEN "True" ELSE "False",
                calls |-> r.calls, outcome |-> NoneOutcome]
    /\ history' = HistoryAfter(history, op, r.calls, NoneOutcome)
    /\ UNCHANGED <<tasks, norm_vars>>

StartupEvent ==
    /\ ~started
    /\ started' = TRUE
    /\ \E b \in Backend :
          Returned("startup_event",
                   connect_freeipa(freeipa_client, freeipa_connected, b.construct, b.login))

EnsureConnection ==
    /\ started
    /\ UNCHANGED started
    /\ \E b \in Backend :
          Returned("ensure_connection",
                   ensure_connection(freeipa_client, freeipa_connected,
                                     b.ping, b.construct, b.login))

FreeipaConnect ==
    \E args \in ConnectArgs, b \in Backend :
        Ran("freeipa_connect", args,
            freeipa_connect(freeipa_client, freeipa_connected, args, b.construct, b.login))

FreeipaDisconnect ==
    \E logout_ok \in BOOLEAN :
        Ran("freeipa_disconnect", NoArgs,
            freeipa_disconnect(freeipa_client, freeipa_connected, logout_ok))

FreeipaStatus ==
    \E reply \in Replies :
        Ran("freeipa_status", NoArgs,
            freeipa_status(freeipa_client, freeipa_connected, reply))

ChangePassword ==
    \E b \in Backend, reply \in Replies, username \in Uids,
       new_password \in NewPasswords \ {<<>>} :
        Ran("change_password",
            [username |-> username, new_password |-> new_password,
             old_password |-> OldPassword],
            change_password(freeipa_client, freeipa_connected, b,
                            username, new_password, OldPassword, reply))

ForgotResetPassword ==
    \E b \in Backend, username \in Uids, phone \in InputPhones,
       new_password \in NewPasswords, lookup \in Lookups, picks \in RandomPicks,
       a \in ResetAnswers :
        Ran("forgot_reset_password",
            [username |-> username, phone |-> phone, new_password |-> new_password,
             ipa_phones |-> lookup.phones],
            forgot_reset_password(freeipa_client, freeipa_connected, b, username, phone,
                                  new_password, lookup, picks, a.mod, a.change))

UserList ==
    \E b \in Backend, reply \in Replies, sizelimit \in SizeLimits :
        Ran("user_list", [sizelimit |-> sizelimit],
            user_list(freeipa_client, freeipa_connected, b, sizelimit, reply))

UserShow ==
    \E b \in Backend, reply \in Replies, uid \in Uids :
        Ran("user_show", [uid |-> uid],
            user_show(freeipa_client, freeipa_connected, b, uid, reply))

UserAdd ==
    \E b \in Backend, reply \in Replies, uid \in Uids, mail \in {"", "a@x.test"},
       userpassword \in NewPasswords :
        Ran("user_add",
            [uid |-> uid, givenname |-> "Alice", sn |-> "A", mail |-> mail,
             userpassword |-> userpassword],
            user_add(freeipa_client, freeipa_connected, b, uid, "Alice", "A",
                     mail, userpassword, reply))

UserModify ==
    \E b \in Backend, reply \in Replies, uid \in Uids, kwargs \in KwargSamples :
        Ran("user_modify", [uid |-> uid, kwargs |-> kwargs],
            user_modify(freeipa_client, freeipa_connected, b, uid, kwargs, reply))

GroupList ==
    \E b \in Backend, reply \in Replies, sizelimit \in SizeLimits,
       cn \in NameFilters, description \in DescriptionFilters :
        Ran("group_list", [sizelimit |-> sizelimit, cn |-> cn, description |-> description],
            group_list(freeipa_client, freeipa_connected, b, sizelimit, cn, description, reply))

GroupShow ==
    \E b \in Backend, reply \in Replies, cn \in Groups :
        Ran("group_show", [cn |-> cn],
            group_show(freeipa_client, freeipa_connected, b, cn, reply))

GroupAdd ==
    \E b \in Backend, reply \in Replies, cn \in Groups, description \in DescriptionFilters :
        Ran("group_add", [cn |-> cn, description |-> description],
            group_add(freeipa_client, freeipa_connected, b, cn, description, reply))

GroupAddMember ==
    \E b \in Backend, reply \in Replies, cn \in Groups, user \in Uids :
        Ran("group_add_member", [cn |-> cn, user |-> user],
            group_add_member(freeipa_client, freeipa_connected, b, cn, user, reply))

GroupRemoveMember ==
    \E b \in Backend, reply \in Replies, cn \in Groups, user \in Uids :
        Ran("group_remove_member", [cn |-> cn, user |-> user],
            group_remove_member(freeipa_client, freeipa_connected, b, cn, user, reply))

Init ==
    /\ freeipa_client = None
    /\ freeipa_connected = FALSE
    /\ started = FALSE
    /\ last = Loaded
    /\ history = NoHistory
    /\ tasks = [t \in Tasks |-> IdleTask]
    /\ n_heap = NoHeap
    /\ n_obj = 1
    /\ n_max_depth = DEFAULT_MAX_DEPTH
    /\ n_current_depth = 0
    /\ n_serialized = Pending

Next ==
    \/ StartupEvent
    \/ EnsureConnection
    \/ FreeipaConnect
    \/ FreeipaDisconnect
    \/ FreeipaStatus
    \/ ChangePassword
    \/ ForgotResetPassword
    \/ UserList
    \/ UserShow
    \/ UserAdd
    \/ UserModify
    \/ GroupList
    \/ GroupShow
    \/ GroupAdd
    \/ GroupAddMember
    \/ GroupRemoveMember

Spec == Init /\ [][Next]_vars

(***************************************************************************)
(* Properties.                                                             *)
(***************************************************************************)
ConnectionTools == {"freeipa_connect", "freeipa_disconnect", "freeipa_status"}
DirectoryTools ==
    {"change_password", "forgot_reset_password", "user_list", "user_show", "user_add",
     "user_modify", "group_list", "group_show", "group_add", "group_add_member",
     "group_remove_member"}
Tools == ConnectionTools \cup DirectoryTools
\* the calls ensure_connection makes, and the calls a directory tool makes
GateCallOps == {"ping", "ClientMeta", "login"}
DirectoryCallOps ==
    {"change_password", "user_find", "user_show", "user_add", "user_mod", "group_find",
     "group_show", "group_add", "group_add_member", "group_remove_member"}
\* the operations that run ensure_connection
Gated == DirectoryTools \cup {"ensure_connection"}

CallsOf(calls, ops) == {i \in DOMAIN calls : calls[i].op \in ops}
CountOf(calls, ops) == Cardinality(CallsOf(calls, ops))
IsGateCall(call) == call.op \in GateCallOps
GateCalls(calls) == SelectSeq(calls, IsGateCall)
LoginFailed(calls) == \E i \in DOMAIN calls : calls[i].op = "login" /\ ~calls[i].ok

\* C1: every tool, in every reachable session state and whatever the backend
\* answers, returns a dict that holds exactly one of "result" and "error".
C1_ExactlyOneOfResultOrError ==
    last.op \in Tools =>
        /\ last.outcome.ret = "dict"
        /\ Cardinality(last.outcome.keys \cap {"result", "error"}) = 1

\* a status probe on a connected session whose ping raised
C1_Witness ==
    /\ last.op = "freeipa_status"
    /\ last.pre_connected
    /\ last.calls # <<>> /\ ~last.calls[1].ok
    /\ last.outcome.keys = {"error"}

\* C2: after freeipa_disconnect the slot is empty and the flag is false,
\* whether logout returned or raised.
C2_DisconnectAlwaysClears ==
    last.op = "freeipa_disconnect" => freeipa_client = None /\ ~freeipa_connected

\* C3: a connect (the tool or connect_freeipa) whose login fails leaves the
\* flag false and the slot as it was: the handle whose login failed is not
\* in it.
C3_FailedLoginDiscardsHandle ==
    LoginFailed(last.calls) =>
        /\ ~freeipa_connected
        /\ freeipa_client = last.pre_client
        /\ \A i \in DOMAIN last.calls :
              last.calls[i].op = "login" => freeipa_client.id # last.calls[i].handle.id

\* C4: ensure_connection entered with the flag true and a handle stored
\* pings that handle first; when the ping returns it builds no client and
\* logs in nowhere; when the ping raises it runs connect_freeipa once, which
\* builds one client for the configured server and verify_ssl and logs in
\* at most once, with the configured username and password, whatever the
\* stored handle had been built for.
C4_OneReconnectWithConfiguration ==
    (last.op \in Gated /\ last.pre_connected /\ last.pre_client # None) =>
        LET gate == GateCalls(last.calls)
        IN  /\ gate # <<>>
            /\ gate[1] = Call("ping", last.pre_client, gate[1].ok, NoArgs)
            /\ CountOf(gate, {"ping"}) = 1
            /\ gate[1].ok => Len(gate) = 1
            /\ ~gate[1].ok =>
                  /\ CountOf(gate, {"ClientMeta"}) = 1
                  /\ CountOf(gate, {"login"}) = IF gate[2].ok THEN 1 ELSE 0
                  /\ gate[2].op = "ClientMeta"
                  /\ gate[2].args = [server |-> FREEIPA_SERVER,
                                     verify_ssl |-> FREEIPA_VERIFY_SSL]
                  /\ \A i \in CallsOf(gate, {"login"}) :
                        /\ gate[i].args = [username |-> FREEIPA_USERNAME,
                                           password |-> FREEIPA_PASSWORD]
                        /\ gate[i].handle.server = FREEIPA_SERVER
                        /\ gate[i].handle.verify_ssl = FREEIPA_VERIFY_SSL

\* a session set up by the tool for another server, whose ping raised, was
\* reconnected with the configuration
C4_Witness ==
    /\ last.op = "ensure_connection"
    /\ last.pre_connected
    /\ last.pre_client.server # FREEIPA_SERVER
    /\ ~last.calls[1].ok
    /\ Len(last.calls) = 3 /\ last.calls[3].op = "login" /\ last.calls[3].ok
    /\ freeipa_client.server = FREEIPA_SERVER

\* C5: when ensure_connection returns True the flag is true and the slot
\* holds a logged-in handle on which the last ping or login of this call
\* succeeded; when it returns False the flag is false.
C5_VerifiablyConnectedOrFailed ==
    last.op \in Gated =>
        LET gate == GateCalls(last.calls)
        IN  /\ last.returned \in {"True", "False"}
            /\ last.returned = "True" =>
                  /\ freeipa_connected
                  /\ freeipa_client # None
                  /\ freeipa_client.authed
                  /\ gate # <<>>
                  /\ gate[Len(gate)].op \in {"ping", "login"}
                  /\ gate[Len(gate)].ok
                  /\ gate[Len(gate)].handle.id = freeipa_client.id
            /\ last.returned = "False" => ~freeipa_connected

\* a dropped connection whose reconnect failed as well
C5_Witness ==
    /\ last.op = "ensure_connection"
    /\ last.pre_connected
    /\ last.returned = "False"
    /\ CountOf(last.calls, {"ping"}) = 1
    /\ LoginFailed(last.calls)

\* C6: a directory tool runs ensure_connection before its first backend
\* call, and when the gate fails it returns the not-connected error without
\* a directory call.
C6_GateBeforeBackend ==
    last.op \in DirectoryTools =>
        /\ last.returned \in {"True", "False"}
        /\ \A i, j \in DOMAIN last.calls :
              (last.calls[i].op \in DirectoryCallOps /\ last.calls[j].op \in GateCallOps)
                  => j < i
        /\ last.returned = "False" =>
              /\ last.outcome = NotConnected
              /\ CountOf(last.calls, DirectoryCallOps) = 0
        /\ CountOf(last.calls, DirectoryCallOps) > 0 => last.returned = "True"

\* a membership change refused at the gate after a failed reconnect
C6_Witness ==
    /\ last.op = "group_add_member"
    /\ last.returned = "False"
    /\ last.calls # <<>>
    /\ last.outcome = NotConnected

RejectedConnect == last.op = "freeipa_connect" /\ LoginFailed(last.calls)

\* C7: a freeipa_connect whose login is rejected returns an error and leaves
\* the flag false, whatever the session was; a freeipa_status called next
\* returns the not-connected error and makes no backend call (no ping, no
\* reconnect).
C7_RejectedConnectThenStatus ==
    [][/\ RejectedConnect' =>
            (last'.outcome.keys = {"error"} /\ ~freeipa_connected')
       /\ (RejectedConnect /\ last'.op = "freeipa_status") =>
            (/\ last'.outcome = NotConnected
             /\ last'.calls = <<>>
             /\ ~freeipa_connected')]_vars

\* a status call after a rejected connect to the other server, made on a
\* session that had been connected
C7_Witness ==
    /\ last.op = "freeipa_status"
    /\ last.pre_client.server # FREEIPA_SERVER
    /\ ~last.pre_client.authed
    /\ last.pre_client # None
    /\ last.outcome = NotConnected
    /\ last.calls = <<>>

\* C10: group_list passes to group_find exactly the filters given non-empty,
\* with their values, and the size limit in every case.
C10_GroupListFilters ==
    last.op = "group_list" =>
        \A i \in CallsOf(last.calls, {"group_find"}) :
            LET sent == last.calls[i].args
            IN  /\ sent.passed = {"sizelimit"}
                       \cup (IF last.args.cn # "" THEN {"a_cn"} ELSE {})
                       \cup (IF last.args.description # "" THEN {"o_description"} ELSE {})
                /\ sent.sizelimit = last.args.sizelimit
                /\ "a_cn" \in sent.passed => sent.a_cn = last.args.cn
                /\ "o_description" \in sent.passed => sent.o_description = last.args.description

\* a listing with both filters that reached the backend
C10_Witness ==
    /\ last.op = "group_list"
    /\ last.args.cn # "" /\ last.args.description # ""
    /\ \E i \in DOMAIN last.calls :
          /\ last.calls[i].op = "group_find"
          /\ last.calls[i].ok
          /\ last.calls[i].args.passed = {"a_cn", "o_description", "sizelimit"}

(***************************************************************************)
(* The credential reset.  The calls of a run are the gate's (a ping, or a  *)
(* ClientMeta() and a login) followed by the directory calls.              *)
(***************************************************************************)
IsDirectoryCall(call) == call.op \in DirectoryCallOps
DirectoryCalls(calls) == SelectSeq(calls, IsDirectoryCall)
AllOk(calls) == \A i \in DOMAIN calls : calls[i].ok
IsReset == last.op = "forgot_reset_password"
\* the phone check of line 254 on the recorded arguments
PhoneVerified ==
    /\ last.args.ipa_phones # <<>>
    /\ \E i \in DOMAIN last.args.ipa_phones :
          normalize_phone(last.args.ipa_phones[i]) = normalize_phone(last.args.phone)
IsTemporary(password) ==
    /\ Len(password) = PASSWORD_LENGTH
    /\ \A i \in DOMAIN password : \E k \in DOMAIN Alphabet : Alphabet[k] = password[i]
\* what the account's credential is after the calls: the value of the last
\* user_mod or change_password that succeeded, <<>> when none did
RECURSIVE CredentialAfter(_)
CredentialAfter(calls) ==
    IF calls = <<>> THEN <<>>
    ELSE LET call == calls[Len(calls)]
         IN  IF call.ok /\ call.op = "user_mod" THEN call.args.o_userpassword
             ELSE IF call.ok /\ call.op = "change_password" THEN call.args.new_password
             ELSE CredentialAfter(SubSeq(calls, 1, Len(calls) - 1))

\* the case of C11: no desired credential, a matching phone, a gate that
\* passed and no failing call
ResetToTemporary ==
    /\ IsReset
    /\ last.args.new_password = <<>>
    /\ last.returned = "True"
    /\ PhoneVerified
    /\ AllOk(last.calls)

\* C11 as stated: such a reset returns the generated 12-character
\* alphanumeric credential and issues exactly two backend calls, a lookup
\* followed by a modify that sets that credential, and no change-password
\* call.
C11_ExactlyTwoBackendCalls ==
    ResetToTemporary =>
        /\ Len(last.calls) = 2
        /\ last.calls[1].op = "user_show"
        /\ last.calls[2].op = "user_mod"
        /\ last.calls[2].args.o_userpassword = last.outcome.new_password
        /\ IsTemporary(last.outcome.new_password)

\* C11: a reset with no desired credential, a matching phone and no failing
\* call returns the generated 12-character alphanumeric credential; after
\* the calls of its ensure_connection gate it issues exactly two directory
\* calls, a lookup of the user followed by a modify that sets that same
\* credential, and no change-password call.
C11_TemporaryCredentialAfterTheGate ==
    ResetToTemporary =>
        LET calls == DirectoryCalls(last.calls)
        IN  /\ GateCalls(last.calls) # <<>>
            /\ Len(calls) = 2
            /\ calls[1].op = "user_show" /\ calls[1].args = [a_uid |-> last.args.username]
            /\ calls[2].op = "user_mod"
            /\ calls[2].args = [a_uid |-> last.args.username,
                                o_userpassword |-> last.outcome.new_password]
            /\ IsTemporary(last.outcome.new_password)
            /\ last.outcome.keys = {"result", "username", "new_password"}
            /\ last.outcome.username = last.args.username
            /\ CountOf(last.calls, {"change_password"}) = 0

\* a reset to a temporary credential for a phone given with spaces that
\* matches the second stored number, on a session that had to reconnect
C11_Witness ==
    /\ ResetToTemporary
    /\ last.args.phone = PhoneSpaced
    /\ last.args.ipa_phones = <<PhoneOther, PhoneIntl>>
    /\ ~last.pre_connected
    /\ Len(last.calls) = 4
    /\ last.outcome.new_password[2] # last.outcome.new_password[1]

\* the case of C12: the lookup answered and the phone check failed
ResetUnverified ==
    /\ IsReset
    /\ last.returned = "True"
    /\ last.calls[Len(last.calls)].op = "user_show"
    /\ last.calls[Len(last.calls)].ok
    /\ ~PhoneVerified

PHONE_NOT_VERIFIED == "Telefon numarasi dogrulanamadi veya sistemde kayitli degil."

\* in a reset every user_mod call comes after a lookup that succeeded and a
\* phone that matched
ModifyOnlyAfterMatch ==
    IsReset =>
        \A i \in DOMAIN last.calls :
            last.calls[i].op = "user_mod" =>
                /\ PhoneVerified
                /\ \E j \in 1..(i - 1) : last.calls[j].op = "user_show" /\ last.calls[j].ok

\* C12 as stated: with no stored number or no match the reset returns the
\* phone-not-verified error having issued exactly one backend call, the
\* lookup, and a modify is always preceded by a lookup and a match.
C12_ExactlyOneBackendCall ==
    /\ ResetUnverified =>
          /\ last.outcome = ErrorOutcome(PHONE_NOT_VERIFIED)
          /\ Len(last.calls) = 1
    /\ ModifyOnlyAfterMatch

\* C12: a reset whose lookup answers no stored number, or none that equals
\* the input after normalization, returns the phone-not-verified error; the
\* lookup is the only directory call it issues after the calls of its gate,
\* with no modify and no change-password call; and in every reset a modify
\* call is preceded by a successful lookup and a successful match.
C12_NoModifyWithoutVerification ==
    /\ ResetUnverified =>
          /\ last.outcome = ErrorOutcome(PHONE_NOT_VERIFIED)
          /\ Len(DirectoryCalls(last.calls)) = 1
          /\ GateCalls(last.calls) # <<>>
          /\ CountOf(last.calls, {"user_mod", "change_password"}) = 0
    /\ ModifyOnlyAfterMatch

\* a reset refused although the account has stored numbers
C12_Witness ==
    /\ ResetUnverified
    /\ last.args.ipa_phones = <<PhoneTrunk>>
    /\ last.args.phone = PhoneOther
    /\ last.args.new_password # <<>>

\* the case of C13: a desired credential, a matching phone and a modify
\* that succeeded
ResetToChosen ==
    /\ IsReset
    /\ last.args.new_password # <<>>
    /\ last.returned = "True"
    /\ PhoneVerified
    /\ \E i \in DOMAIN last.calls : last.calls[i].op = "user_mod" /\ last.calls[i].ok

\* C13: a reset with a desired credential issues, after a verified match,
\* the lookup, then the modify that sets a temporary credential, then
\* exactly one change-password call whose old value is the temporary
\* credential just set and whose new value is the caller's choice; when that
\* call succeeds the outcome reports the caller's credential, not the
\* temporary one.
C13_ChangeFromTemporaryToChosen ==
    ResetToChosen =>
        LET calls == DirectoryCalls(last.calls)
            temp_password == calls[2].args.o_userpassword
        IN  /\ Len(calls) = 3
            /\ calls[1].op = "user_show" /\ calls[1].ok
            /\ calls[2].op = "user_mod" /\ IsTemporary(temp_password)
            /\ calls[2].args.a_uid = last.args.username
            /\ calls[3].op = "change_password"
            /\ calls[3].args = [username |-> last.args.username,
                                new_password |-> last.args.new_password,
                                old_password |-> temp_password]
            /\ calls[3].ok =>
                  /\ last.outcome.keys = {"result", "username", "new_password"}
                  /\ last.outcome.new_password = last.args.new_password
                  /\ last.outcome.new_password # temp_password

\* a reset to the caller's credential that went through
C13_Witness ==
    /\ ResetToChosen
    /\ AllOk(last.calls)
    /\ last.args.new_password = <<"n", "e", "w">>
    /\ last.outcome.new_password = <<"n", "e", "w">>
    /\ CredentialAfter(last.calls) = <<"n", "e", "w">>

\* C14: in a reset a failing lookup, modify or change-password call is the
\* last call made and the outcome is an error that carries no credential;
\* nothing is rolled back: when the modify succeeded and the change-password
\* call fails the account keeps the temporary credential.
C14_FailureAbortsWithoutRollback ==
    (IsReset /\ last.returned = "True") =>
        LET calls == last.calls
            n == Len(last.calls)
        IN  /\ \A i \in DOMAIN calls :
                  (IsDirectoryCall(calls[i]) /\ ~calls[i].ok) =>
                      /\ i = n
                      /\ last.outcome.keys = {"error"}
                      /\ last.outcome.error # ""
                      /\ last.outcome.new_password = <<>>
            /\ (calls[n].op = "change_password" /\ ~calls[n].ok) =>
                  /\ calls[n - 1].op = "user_mod" /\ calls[n - 1].ok
                  /\ CredentialAfter(calls) = calls[n - 1].args.o_userpassword
                  /\ IsTemporary(CredentialAfter(calls))
                  /\ CredentialAfter(calls) # last.args.new_password

\* a reset whose change-password call failed after the modify went through
C14_Witness ==
    /\ IsReset
    /\ last.returned = "True"
    /\ last.calls[Len(last.calls)].op = "change_password"
    /\ ~last.calls[Len(last.calls)].ok
    /\ last.outcome = ErrorOutcome("Kullanici sifresi resetlenirken hata")

(***************************************************************************)
(* Failures, the flag and the slot.                                        *)
(***************************************************************************)
SessionFunctions == {"startup_event", "ensure_connection"}
LastCallFailed == last.calls # <<>> /\ ~last.calls[Len(last.calls)].ok
ConnectRefused(calls) ==
    \E i \in DOMAIN calls : calls[i].op \in {"ClientMeta", "login"} /\ ~calls[i].ok

\* C15: nothing is raised out of a tool or out of connect_freeipa and
\* ensure_connection, whatever the slot holds (a handle or none) and
\* whichever call fails (ClientMeta(), login, logout, ping, a directory
\* call): a tool returns a dict, {error: text} when the call it ended on
\* failed; the session functions return a boolean, False when the call they
\* ended on failed; and the only failing call that is followed by another
\* call is the gate's ping, followed by the reconnect.
C15_NoExceptionCrossesABoundary ==
    /\ last.op \in Tools =>
          /\ last.outcome.ret = "dict"
          /\ LastCallFailed =>
                (last.outcome.keys = {"error"} /\ last.outcome.error # "")
    /\ last.op \in SessionFunctions =>
          /\ last.returned \in {"True", "False"}
          /\ LastCallFailed => (last.returned = "False" /\ ~freeipa_connected)
    /\ \A i \in DOMAIN last.calls :
          (~last.calls[i].ok /\ i < Len(last.calls)) =>
              /\ last.op \in Gated
              /\ last.calls[i].op = "ping"
              /\ last.calls[i + 1].op = "ClientMeta"

\* a directory tool called on a session with no handle whose ClientMeta()
\* raises
C15_Witness ==
    /\ last.op \in DirectoryTools
    /\ last.pre_client = None
    /\ last.calls = <<Call("ClientMeta", None, FALSE,
                           [server |-> FREEIPA_SERVER, verify_ssl |-> FREEIPA_VERIFY_SSL])>>
    /\ last.outcome = NotConnected

\* C19: in every state the server reaches by calls made one at a time
\* (startup, connect, disconnect, status, ensure_connection, the directory
\* tools), whatever the backend answers, the flag is true only when a
\* handle is stored.
C19_ConnectedImpliesHandle ==
    freeipa_connected => freeipa_client # None

\* the flag still true after a disconnect, whose logout raised, on a
\* session that had been connected to the other server
C19_Witness ==
    /\ last.op = "freeipa_disconnect"
    /\ freeipa_connected
    /\ freeipa_client # None
    /\ freeipa_client.server # FREEIPA_SERVER
    /\ LastCallFailed

\* C20: whatever state the session is in, a run of ensure_connection in
\* which no ClientMeta() and no login with the process configuration is
\* refused returns True and leaves the flag true, and a directory tool
\* whose gate it is goes on to its directory call instead of returning the
\* not-connected error.
C20_SelfHealing ==
    (last.op \in Gated /\ ~ConnectRefused(last.calls)) =>
        /\ last.returned = "True"
        /\ freeipa_connected
        /\ \A i \in DOMAIN last.calls :
              last.calls[i].op = "login" => last.calls[i].args.username = FREEIPA_USERNAME
        /\ last.op \in DirectoryTools =>
              /\ CountOf(last.calls, DirectoryCallOps) >= 1
              /\ last.outcome # NotConnected

\* a lookup that reached the backend through a new login, called on a
\* session whose flag had been cleared while its handle stayed in the slot
C20_Witness ==
    /\ last.op = "user_show"
    /\ ~last.pre_connected
    /\ last.pre_client # None
    /\ last.returned = "True"
    /\ CountOf(last.calls, {"login"}) = 1
    /\ last.outcome.keys = {"result"}

\* a dropped connection repaired by ensure_connection
C20_WitnessDropped ==
    /\ last.op = "ensure_connection"
    /\ last.pre_connected
    /\ CountOf(last.calls, {"ping"}) = 1
    /\ last.returned = "True"
    /\ freeipa_client.id # last.pre_client.id

\* C16 as stated: in every state reached by calls made one at a time the
\* flag is true if and only if the last connect or ping succeeded.
C16_FlagIffLastProbeSucceeded ==
    freeipa_connected <=> history.probe = "ok"

\* C16: in every state reached by calls made one at a time (connect,
\* disconnect, status, ensure_connection, the directory tools) the flag is
\* true if and only if the last connect or ping succeeded and the flag has
\* not been cleared since by a disconnect that returned its result or by a
\* status call whose ping returned but whose answer was not normalized.
C16_FlagIffLastProbeSucceededAndNotCleared ==
    freeipa_connected <=> (history.probe = "ok" /\ ~history.cleared)

\* the flag false after a disconnect that followed a successful connect
C16_Witness ==
    /\ last.op = "freeipa_disconnect"
    /\ last.pre_connected
    /\ ~freeipa_connected
    /\ history = [probe |-> "ok", cleared |-> TRUE]

\* the flag false after a status call whose ping returned
C16_WitnessStatus ==
    /\ last.op = "freeipa_status"
    /\ last.calls # <<>> /\ last.calls[1].ok
    /\ ~freeipa_connected
    /\ history = [probe |-> "ok", cleared |-> TRUE]

(***************************************************************************)
(* Calls in flight.  Each /sse connection runs its own MCP session         *)
(* (handle_sse), so the sessions can each have a tool call in flight       *)
(* against the two module globals.  No tool holds an await and the calls   *)
(* on the backend client block, so the one event loop runs a call from     *)
(* its first line to its return before it runs another: a call in flight   *)
(* has arrived and waits for the loop (pending), or has run (done).        *)
(* tasks[t] is the call of session t: its tool, the globals it found, the  *)
(* backend calls it made, what it returned, and the call of the other      *)
(* session that was waiting while it ran (met, 0 when none was).           *)
(***************************************************************************)
\* calls a session makes, at most
MaxRuns == 2
ConcOps == {"ensure_connection", "user_show", "freeipa_connect", "freeipa_disconnect"}
ConcReplies == {ReplyRaise, ReplyOf(PlainPayload)}

\* ensure_connection called on its own, as a tool's result
EnsureOnly(r) ==
    Handled(r.client, r.connected, IF r.ret THEN "True" ELSE "False", r.calls, NoneOutcome)

\* the tool of a pending call, run whole
ConcRun(op, client, connected, b, args, reply, logout_ok) ==
    IF op = "ensure_connection"
    THEN EnsureOnly(ensure_connection(client, connected, b.ping, b.construct, b.login))
    ELSE IF op = "user_show" THEN user_show(client, connected, b, "alice", reply)
    ELSE IF op = "freeipa_connect"
    THEN freeipa_connect(client, connected, args, b.construct, b.login)
    ELSE freeipa_disconnect(client, connected, logout_ok)

\* the answers a tool does not read are held at one value
Read(op, b, args, reply, logout_ok) ==
    /\ op # "freeipa_connect" => args.server = FREEIPA_SERVER
    /\ op # "user_show" => reply = ReplyRaise
    /\ op # "freeipa_disconnect" => logout_ok
    /\ op = "freeipa_disconnect" => (b.ping /\ b.login)
    /\ op = "freeipa_connect" => b.ping

\* the number of the other session's call when that call is waiting
Waiting(t) ==
    LET other == CHOOSE u \in Tasks : u # t
    IN  IF tasks[other].pc = "pending" THEN tasks[other].runs ELSE 0

\* a request arrives on session t
Dispatch ==
    \E t \in Tasks, op \in ConcOps :
        /\ started
        /\ tasks[t].pc \in {"idle", "done"}
        /\ tasks[t].runs < MaxRuns
        /\ tasks' = [tasks EXCEPT ![t] = [IdleTask EXCEPT !.op = op, !.pc = "pending",
                                                          !.runs = tasks[t].runs + 1]]
        /\ UNCHANGED <<freeipa_client, freeipa_connected, started, last, history, norm_vars>>

\* the event loop runs the pending call of session t to its return
Run ==
    \E t \in Tasks, b \in Backend, args \in ConnectArgs, reply \in ConcReplies, logout_ok \in BOOLEAN :
        /\ tasks[t].pc = "pending"
        /\ Read(tasks[t].op, b, args, reply, logout_ok)
        /\ LET h == ConcRun(tasks[t].op, freeipa_client, freeipa_connected,
                            b, args, reply, logout_ok)
           IN  /\ freeipa_client' = h.client
               /\ freeipa_connected' = h.connected
               /\ tasks' = [tasks EXCEPT ![t] =
                               [@ EXCEPT !.pc = "done", !.pre_client = freeipa_client,
                                         !.pre_connected = freeipa_connected,
                                         !.returned = h.ensured, !.calls = h.calls,
                                         !.outcome = h.outcome, !.met = Waiting(t)]]
               /\ history' = HistoryAfter(history, tasks[t].op, h.calls, h.outcome)
        /\ UNCHANGED <<started, last, norm_vars>>

ConcNext ==
    \/ StartupEvent
    \/ Dispatch
    \/ Run

SpecConc == Init /\ [][ConcNext]_vars

\* the call of session t found the connection dropped: the flag false, no
\* client, or a ping that raised
FoundDropped(t) ==
    \/ ~tasks[t].pre_connected
    \/ tasks[t].pre_client = None
    \/ \E i \in DOMAIN tasks[t].calls : tasks[t].calls[i].op = "ping" /\ ~tasks[t].calls[i].ok

\* the two sessions have each completed an ensure_connection that found
\* the connection dropped
BothEnsured ==
    \A t \in Tasks :
        /\ tasks[t].op = "ensure_connection"
        /\ tasks[t].pc = "done"
        /\ FoundDropped(t)

\* the calls the two sessions have completed were in flight together: one
\* of them ran while the other was waiting
InFlightTogether ==
    \E t \in Tasks, u \in Tasks :
        /\ t # u
        /\ tasks[t].pc = "done" /\ tasks[u].pc = "done"
        /\ tasks[t].met = tasks[u].runs

\* C17: when two ensure_connection calls are in flight together and both
\* find the connection dropped, each makes at most one reconnect attempt
\* (one ClientMeta(), one login), and once both have returned the flag is
\* true only if the slot holds a client whose login succeeded.
C17_BenignReconnectRace ==
    /\ \A t \in Tasks :
          (tasks[t].op = "ensure_connection" /\ tasks[t].pc = "done") =>
              /\ CountOf(tasks[t].calls, {"ClientMeta"}) <= 1
              /\ CountOf(tasks[t].calls, {"login"}) <= 1
              /\ tasks[t].returned = "True" =>
                    tasks[t].calls[Len(tasks[t].calls)].ok
    /\ (BothEnsured /\ freeipa_connected) =>
          (freeipa_client # None /\ freeipa_client.authed)

\* two ensure_connection calls in flight together, the first to run finding
\* a ping that raises and a login that is refused, the second logging in
C17_Witness ==
    /\ BothEnsured
    /\ InFlightTogether
    /\ \E t \in Tasks :
          /\ tasks[t].met > 0
          /\ tasks[t].pre_connected
          /\ tasks[t].returned = "False"
    /\ freeipa_connected
    /\ freeipa_client.authed

\* C18: with calls of several sessions in flight, a user_show makes its
\* directory call only after its gate has returned True, on the client in
\* the slot, which is not None and has completed a login, whatever the call
\* of the other session is (a connect, a reconnect or a disconnect, waiting
\* or done).
C18_DirectoryCallOnLoggedInHandle ==
    \A t \in Tasks :
        (tasks[t].op = "user_show" /\ tasks[t].pc = "done") =>
            LET calls == tasks[t].calls
            IN  /\ \A i \in DOMAIN calls :
                      calls[i].op = "user_show" =>
                          /\ calls[i].handle # None
                          /\ calls[i].handle.authed
                          /\ i = Len(calls)
                /\ tasks[t].returned = "True" <=> CountOf(calls, {"user_show"}) = 1

\* a user_show that reached the backend through a new login while a
\* freeipa_disconnect of the other session was waiting, the slot holding a
\* client whose login had been refused
C18_Witness ==
    \E t \in Tasks, u \in Tasks :
        /\ tasks[t].op = "user_show" /\ tasks[t].pc = "done"
        /\ tasks[t].met > 0
        /\ tasks[t].pre_client # None /\ ~tasks[t].pre_client.authed
        /\ tasks[t].outcome.keys = {"result"}
        /\ tasks[u].op = "freeipa_disconnect" /\ tasks[u].pc = "pending"

(***************************************************************************)
(* The normalizer on its own: every object graph of NumNodes objects in    *)
(* which a container holds at most two items and refers to itself or to    *)
(* later objects, every max_depth up to MaxDepthBound and every            *)
(* current_depth up to max_depth + 1.                                      *)
(***************************************************************************)
UpToTwo(S) == {<<>>} \cup {<<a>> : a \in S} \cup {<<a, b>> : a \in S, b \in S}

Keys == {StrKey("1"), IntKey("1"), BadKey}

Leaves == {PyPrim("NoneType", "None"), PyPrim("bool", "True"), PyPrim("int", "7"),
           PyPrim("float", "1.5"), PyStr("x"), PyObject(TRUE), PyObject(FALSE)}

\* a dict holds a key once
DistinctKeys(entries) ==
    \A i, j \in 1..Len(entries) : entries[i].key = entries[j].key => i = j

NodeShapes(targets) ==
    Leaves
    \cup {PyListOf(items) : items \in UpToTwo(targets)}
    \cup {PyTupleOf(items) : items \in UpToTwo(targets)}
    \cup {PyDictOf(entries) : entries \in
             {e \in UpToTwo([key : Keys, val : targets]) : DistinctKeys(e)}}

RECURSIVE HeapsFrom(_)
HeapsFrom(i) ==
    IF i > NumNodes THEN {<<>>}
    ELSE {<<node>> \o rest : node \in NodeShapes(i..NumNodes), rest \in HeapsFrom(i + 1)}

Heaps == HeapsFrom(1)


NormInit ==
    /\ n_heap \in Heaps
    /\ n_obj = 1
    /\ n_max_depth \in 0..MaxDepthBound
    /\ n_current_depth \in 0..(n_max_depth + 1)
    /\ n_serialized = Pending
    /\ freeipa_client = None
    /\ freeipa_connected = FALSE
    /\ started = FALSE
    /\ last = Loaded
    /\ history = NoHistory
    /\ tasks = [t \in Tasks |-> IdleTask]

Normalize ==
    /\ n_serialized = Pending
    /\ n_serialized' = safe_json_serialize(n_heap, n_obj, n_max_depth, n_current_depth)
    /\ UNCHANGED <<n_heap, n_obj, n_max_depth, n_current_depth>>
    /\ UNCHANGED session_vars

NormNext == Normalize

SpecNorm == NormInit /\ [][NormNext]_vars

RECURSIVE OutDepth(_)
RECURSIVE MaxOver(_, _)
\* the largest of f's values, 0 for none
MaxOver(f, keys) ==
    IF keys = {} THEN 0
    ELSE LET k == CHOOSE x \in keys : TRUE
             m == MaxOver(f, keys \ {k})
         IN  IF f[k] > m THEN f[k] ELSE m
\* how far below the root of a result its deepest node lies
OutDepth(out) ==
    IF out.t = "list" /\ out.items # <<>>
    THEN 1 + MaxOver([i \in DOMAIN out.items |-> OutDepth(out.items[i])], DOMAIN out.items)
    ELSE IF out.t = "dict" /\ DOMAIN out.map # {}
    THEN 1 + MaxOver([k \in DOMAIN out.map |-> OutDepth(out.map[k])], DOMAIN out.map)
    ELSE 0

\* C8: safe_json_serialize returns for every argument and raises for none,
\* a dict key whose str() raises included.
C8_NeverRaises ==
    n_serialized # Pending => ~IsRaised(n_serialized)

\* C9: at a depth above max_depth the result is the placeholder whatever
\* the argument is; up to max_depth a primitive is returned as it is; and a
\* result has no node more than max_depth + 1 below the top level.
C9_DepthBound ==
    n_serialized # Pending =>
        /\ n_current_depth > n_max_depth => n_serialized = MaxDepthExceeded
        /\ (n_current_depth <= n_max_depth /\ n_heap[n_obj].kind = "prim") =>
              n_serialized = OutPrim(n_heap[n_obj].ptype, n_heap[n_obj].val)
        /\ ~IsRaised(n_serialized) =>
              n_current_depth + OutDepth(n_serialized) <= n_max_depth + 1

\* a list that contains itself, cut off by the placeholder at max_depth + 1
C9_Witness ==
    /\ n_serialized # Pending
    /\ n_heap[n_obj] = PyListOf(<<n_obj>>)
    /\ n_current_depth = 0
    /\ n_max_depth = MaxDepthBound
    /\ OutDepth(n_serialized) = n_max_depth + 1

====
